---- MODULE Spec2Model ----
(***************************************************************************)
(* Task update delivery of the a2a-rs web frontend                         *)
(* (a2a-agents/bin/frontend.rs): the axum handlers send_message,           *)
(* submit_expense, chat_page, cancel_task, stream_task and                 *)
(* handle_push_notification, each run as a request task that is suspended  *)
(* at every .await, over the shared read-only AppState.  The external A2A  *)
(* client (state.client.http) is the environment: each of its calls        *)
(* returns Ok or Err.  SpecReadAfterWrite puts an eventually consistent    *)
(* backend behind the client, SpecStream the event stream of               *)
(* create_sse_stream behind stream_task.                                   *)
(***************************************************************************)
EXTENDS Integers, Sequences, FiniteSets, TLC

(* ---------------------------------------------------------------------- *)
(* Bounds of the model                                                     *)
(* ---------------------------------------------------------------------- *)
\* number of request tasks that can be in flight at the same time in Spec
MaxReq == 1
\* longest multipart field sequence explored by SpecAssemble
MaxFields == 4
\* number of request tasks in flight at the same time in SpecConcurrent
MaxConcurrent == 2
\* longest multipart field sequence explored by SpecUnknownFields
MaxProbe == 3
\* most messages the backend accepts for one task in SpecReadAfterWrite
MaxStored == 2
\* most events a subscription delivers in SpecStream
MaxEvents == 2

\* the request tasks of Spec, and of SpecConcurrent
Serving == 1..MaxReq
Concurrent == 1..MaxConcurrent

\* all request tasks: tokio runs each accepted request as a task of its own
Req == Serving \cup Concurrent

(* ---------------------------------------------------------------------- *)
(* Rust values                                                             *)
(* ---------------------------------------------------------------------- *)
\* Option<T>: None is the empty sequence, Some(x) the one-element sequence
None == << >>
Some(x) == << x >>
IsSome(o) == Len(o) = 1
Unwrap(o) == o[1]

\* Vec::insert(0, x)
Insert0(v, x) == << x >> \o v
\* Vec::push(x)
Push(v, x) == Append(v, x)

(* ---------------------------------------------------------------------- *)
(* base64::engine::general_purpose::STANDARD.encode                        *)
(* bytes are 0..255; the output is a sequence of alphabet indices 0..63,   *)
(* with Pad for '='                                                        *)
(* ---------------------------------------------------------------------- *)
Pad == 64
RECURSIVE Base64Encode(_)
Base64Encode(data) ==
    IF Len(data) = 0 THEN << >>
    ELSE IF Len(data) = 1 THEN
        << data[1] \div 4, (data[1] % 4) * 16, Pad, Pad >>
    ELSE IF Len(data) = 2 THEN
        << data[1] \div 4,
           (data[1] % 4) * 16 + data[2] \div 16,
           (data[2] % 16) * 4,
           Pad >>
    ELSE
        << data[1] \div 4,
           (data[1] % 4) * 16 + data[2] \div 16,
           (data[2] % 16) * 4 + data[3] \div 64,
           data[3] % 64 >>
        \o Base64Encode(SubSeq(data, 4, Len(data)))

(* ---------------------------------------------------------------------- *)
(* a2a_rs::domain values built by the handlers                             *)
(* ---------------------------------------------------------------------- *)
\* Part::text(s)
PartText(s) == [kind |-> "text", text |-> s]
\* faulty variant: the file is referred to by a URI and its bytes are left out
PartFileByUri(base64_data, file_name, content_type) ==
    [kind |-> "file",
     file |-> [bytes |-> None, uri |-> Some("file:///upload"),
               name |-> file_name, mime_type |-> content_type]]

\* Part::File { file: FileContent { bytes: Some(base64), uri: None, name, mime_type }, metadata: None }
PartFile(base64_data, file_name, content_type) ==
    [kind |-> "file",
     file |-> [bytes |-> Some(base64_data), uri |-> None,
               name |-> file_name, mime_type |-> content_type]]

\* faulty variant: the message does not carry the task identifier
NewMessageWithoutTaskId(ps, tid) ==
    [role |-> "user", parts |-> ps, task_id |-> None, kind |-> "message"]

\* Message { role: Role::User, parts, task_id: Some(task_id), kind: "message", .. }
\* (message_id is a fresh random UUID; metadata, reference_task_ids,
\* context_id and extensions are None)
NewMessage(ps, tid) ==
    [role |-> "user", parts |-> ps, task_id |-> Some(tid), kind |-> "message"]

\* faulty variant: a token is generated for each registration
PushConfigFreshToken(tid, token) ==
    [task_id |-> tid,
     url |-> "http://localhost:3000/webhook/push-notification",
     token |-> Some(<< 119, 104, 95, 55, 102 >>)]

\* TaskPushNotificationConfig { task_id, push_notification_config: { url, token: Some(webhook_token), .. } }
PushConfig(tid, token) ==
    [task_id |-> tid,
     url |-> "http://localhost:3000/webhook/push-notification",
     token |-> Some(token)]

(* ---------------------------------------------------------------------- *)
(* Responses                                                               *)
(* ---------------------------------------------------------------------- *)
NoResponse == [kind |-> "none"]
\* axum::response::Redirect::to(&format!("/chat/{}", task_id))
RedirectTo(tid) == [kind |-> "redirect", location |-> "/chat/" \o tid]
\* AppError(anyhow!(msg)) -> 500 "Internal server error: msg"
AppError(msg) == [kind |-> "error", error |-> msg]
\* ChatTemplate { task_id, messages, task_state }
ChatTemplate(tid, msgs, st) ==
    [kind |-> "page", task_id |-> tid, messages |-> msgs, task_state |-> st]
\* faulty variant: the receipt does not carry the event's task identifier
JsonReceiptWithoutTaskId(tid) ==
    [kind |-> "json", status |-> "received", task_id |-> "", authenticated |-> TRUE]

\* axum::response::Json(json!({status, task_id, authenticated}))
JsonReceipt(tid) ==
    [kind |-> "json", status |-> "received", task_id |-> tid, authenticated |-> TRUE]
\* rejection produced by the axum::Json extractor, before the handler runs
JsonRejection == [kind |-> "rejection"]

(* ---------------------------------------------------------------------- *)
(* Records of the calls a request task makes (external client, sleep)      *)
(* ---------------------------------------------------------------------- *)
CallSubmit(tid, msg, ok) ==
    [op |-> "send_task_message", task_id |-> tid, message |-> msg, ok |-> ok]
CallRegister(config, ok) ==
    [op |-> "set_task_push_notification", task_id |-> config.task_id,
     config |-> config, ok |-> ok]
\* result is Some(task) for Ok(task); error is Some(e) for Err(e)
CallGetTask(tid, result, error) ==
    [op |-> "get_task", task_id |-> tid, result |-> result, error |-> error,
     ok |-> IsSome(result)]
CallCancel(tid, ok) == [op |-> "cancel_task", task_id |-> tid, ok |-> ok]
CallSleep(ms) == [op |-> "sleep", ms |-> ms, ok |-> TRUE]

\* the ops of a call log, in order
RECURSIVE Ops(_)
Ops(log) == IF log = << >> THEN << >> ELSE << Head(log).op >> \o Ops(Tail(log))

(* ---------------------------------------------------------------------- *)
(* Inputs                                                                  *)
(* ---------------------------------------------------------------------- *)
\* a multipart field: name(), file_name(), content_type(), and its content
\* as read by text() and by bytes()
TextField(n, t) ==
    [name |-> n, file_name |-> None, content_type |-> None, text |-> t, data |-> << >>]
FileField(n, fname, ctype, d) ==
    [name |-> n, file_name |-> fname, content_type |-> ctype, text |-> "", data |-> d]

FieldValues ==
    { TextField(Some("task_id"), t) : t \in {"", "t1"} }
    \cup { TextField(Some("message"), m) : m \in {"", "hello"} }
    \cup { FileField(Some("receipt"), Some("a.png"), Some("image/png"), << >>),
           FileField(Some("receipt"), Some("a.png"), Some("image/png"), << 137, 80, 78, 71, 10 >>),
           FileField(Some("receipt"), None, None, << 255 >>) }
    \cup { TextField(Some("csrf"), "x"), TextField(None, "task_id") }

\* all field sequences of length at most n
RECURSIVE FieldSeqs(_)
FieldSeqs(n) ==
    IF n = 0 THEN { << >> }
    ELSE LET shorter == FieldSeqs(n - 1)
         IN  shorter \cup { Append(s, f) : s \in shorter, f \in FieldValues }

\* the multipart bodies given to message assembly
AssembleForms == FieldSeqs(MaxFields)

\* the multipart bodies sent to the running system
SystemForms ==
    { << TextField(Some("task_id"), "t1"), TextField(Some("message"), "hello") >>,
      << FileField(Some("receipt"), Some("a.png"), Some("image/png"), << 137, 80, 78, 71, 10 >>),
         TextField(Some("task_id"), "t2") >>,
      << TextField(Some("message"), "hello") >>,
      << TextField(Some("task_id"), "t1"), TextField(Some("csrf"), "x") >> }

\* ExpenseSubmitForm
ExpenseForms ==
    { [category |-> "travel", amount |-> "12.50", date |-> "2024-01-02",
       vendor |-> Some("ACME"), description |-> "taxi", project_code |-> None],
      [category |-> "meals", amount |-> "8", date |-> "2024-01-03",
       vendor |-> None, description |-> "lunch", project_code |-> Some("P1")] }

\* Uuid::new_v4().to_string()
Uuids == {"uuid-1", "uuid-2"}

\* path parameter of /chat/:task_id
PathTaskIds == {"t1", "t2"}

(* ---------------------------------------------------------------------- *)
(* State                                                                   *)
(* ---------------------------------------------------------------------- *)
VARIABLES
    webhook_token,   \* AppState.webhook_token, as the bytes of the String
    handler,         \* handler[p]: the handler request task p runs
    pc,              \* pc[p]: the .await (or step) task p is at
    request,         \* request[p]: what the extractors are given
    task_id,         \* local task_id of send_message / submit_expense
    message_text,    \* local message_text of send_message
    parts,           \* local parts of send_message
    cursor,          \* number of multipart fields already taken by next_field()
    message,         \* local message (None until built)
    retry_count,     \* local retry_count of chat_page
    event,           \* the extracted TaskStatusUpdateEvent (None until extracted)
    authenticated,   \* local authenticated of handle_push_notification (None until computed)
    backend,         \* the tasks of the backend behind the external client
    stream,          \* stream[p]: the event stream of request p and its subscription
    calls,           \* calls[p]: the calls task p has made, in order
    response         \* response[p]: the response of task p

vars == << webhook_token, backend, stream, handler, pc, request, task_id, message_text, parts,
           cursor, message, retry_count, event, authenticated, calls, response >>

locals == << task_id, message_text, parts, cursor, message, retry_count,
             event, authenticated >>

(* ---------------------------------------------------------------------- *)
(* Program constants                                                       *)
(* ---------------------------------------------------------------------- *)
\* let max_retries = 3;
max_retries == 3
\* tokio::time::sleep(Duration::from_millis(200)) between fetch attempts
RetryDelayMs == 200
\* tokio::time::sleep(Duration::from_millis(500)) before the redirect
SettleDelayMs == 500

(* ---------------------------------------------------------------------- *)
(* The webhook secret and the Authorization header, as bytes               *)
(* ---------------------------------------------------------------------- *)
\* "Bearer "
BearerPrefix == << 66, 101, 97, 114, 101, 114, 32 >>

\* the token main generates, "wh_7f"
GeneratedSecret == << 119, 104, 95, 55, 102 >>

\* webhook_token after main: format!("wh_{}", Uuid::new_v4().simple()) when
\* WEBHOOK_TOKEN is unset (here "wh_7f"), else the value of WEBHOOK_TOKEN
\* (here "s3c", the empty string, and the non-ASCII "\u{e9}")
Secrets ==
    { GeneratedSecret, << 115, 51, 99 >>, << >>, << 195, 169 >> }

\* the Authorization header values a sender may put on a webhook request,
\* given the secret s: absent, or the bytes of a header value
Headers(s) ==
    { None,
      Some(BearerPrefix \o s),                          \* Bearer <secret>
      Some(BearerPrefix \o s \o << 120 >>),             \* Bearer <secret>x
      Some(BearerPrefix \o << 120 >>),                  \* Bearer x
      Some(BearerPrefix),                               \* "Bearer " with no token
      Some(BearerPrefix \o << 32 >> \o s),              \* two spaces
      Some(<< 66, 101, 97, 114, 101, 114 >> \o s),      \* Bearer<secret>
      Some(<< 98, 101, 97, 114, 101, 114, 32 >> \o s),  \* bearer <secret>
      Some(<< 66, 97, 115, 105, 99, 32 >> \o s),        \* Basic <secret>
      Some(s),                                          \* <secret>
      Some(BearerPrefix \o s \o << 255 >>) }            \* Bearer <secret>\xff

\* the webhook request bodies: a JSON TaskStatusUpdateEvent, or something
\* that is not one
Bodies ==
    { [json |-> Some([task_id |-> "t1", state |-> "completed"])],
      [json |-> Some([task_id |-> "t2", state |-> "working"])],
      [json |-> None] }

\* http::HeaderValue::to_str: the value as &str if every byte is visible
\* ASCII (32..126) or a tab
IsVisibleAscii(b) == (b >= 32 /\ b < 127) \/ b = 9
ToStr(value) ==
    IF \A i \in 1..Len(value) : IsVisibleAscii(value[i]) THEN Some(value) ELSE None

\* headers.get(AUTHORIZATION).and_then(|h| h.to_str().ok())
AuthHeader(authorization) ==
    IF IsSome(authorization) THEN ToStr(Unwrap(authorization)) ELSE None

\* faulty variant: the letters of the prefix are not compared
StartsWithAnyLetters(str, prefix) ==
    /\ Len(str) >= Len(prefix)
    /\ \A i \in 1..Len(prefix) : (prefix[i] = 32) => (str[i] = 32)

\* str::starts_with
StartsWith(str, prefix) ==
    Len(str) >= Len(prefix) /\ SubSeq(str, 1, Len(prefix)) = prefix

\* faulty variant: the token is compared as a prefix
AuthenticatedByPrefix(auth_header, token) ==
    IF IsSome(auth_header) /\ StartsWith(Unwrap(auth_header), BearerPrefix)
    THEN StartsWith(SubSeq(Unwrap(auth_header), 8, Len(Unwrap(auth_header))), token)
    ELSE FALSE

\* match auth_header { Some(header) if header.starts_with("Bearer ") =>
\*     &header[7..] == state.webhook_token, _ => false }
Authenticated(auth_header, token) ==
    IF IsSome(auth_header) /\ StartsWith(Unwrap(auth_header), BearerPrefix)
    THEN SubSeq(Unwrap(auth_header), 8, Len(Unwrap(auth_header))) = token
    ELSE FALSE

\* axum::Json<TaskStatusUpdateEvent>: the body deserialized, or a rejection
ParseEvent(body) ==
    IF IsSome(body.json)
    THEN Some([task_id |-> Unwrap(body.json).task_id,
               status |-> [state |-> Unwrap(body.json).state]])
    ELSE None

(* ---------------------------------------------------------------------- *)
(* Tasks returned by get_task                                              *)
(* ---------------------------------------------------------------------- *)
AgentMessage(ps, tid) ==
    [role |-> "agent", parts |-> ps, task_id |-> Some(tid), kind |-> "message"]

TaskValues(tid) ==
    { [id |-> tid, history |-> None, status |-> [state |-> "submitted"]],
      [id |-> tid,
       history |-> Some(<< NewMessage(<< PartText("hello") >>, tid),
                           AgentMessage(<< PartText("hi") >>, tid) >>),
       status |-> [state |-> "input-required"]] }

\* the errors get_task can return: the task does not exist or is not yet
\* visible, the backend cannot be reached, the reply cannot be decoded
GetTaskErrors == { "TaskNotFound", "Transport", "Decode" }

\* the values of get_task(tid): Ok(task) or Err(e)
GetTaskResults(tid) ==
    { [result |-> Some(t), error |-> None] : t \in TaskValues(tid) }
    \cup { [result |-> None, error |-> Some(e)] : e \in GetTaskErrors }

\* format!("{:?}", task.status.state): the variant name of TaskState
DebugTaskState(state) ==
    CASE state = "submitted" -> "Submitted"
      [] state = "working" -> "Working"
      [] state = "input-required" -> "InputRequired"
      [] state = "completed" -> "Completed"
      [] state = "canceled" -> "Canceled"
      [] state = "failed" -> "Failed"

\* MessageView::from_message_with_json_parsing
MessageViewOf(m) == [view_of |-> m]

\* faulty variant: only the latest message of the history is rendered
TaskMessagesLatestOnly(task) ==
    LET history == IF IsSome(task.history) THEN Unwrap(task.history) ELSE << >>
    IN  IF history = << >> THEN << >> ELSE << MessageViewOf(history[Len(history)]) >>

\* the Ok(task) arm of chat_page: (messages, Some(state))
TaskMessages(task) ==
    LET history == IF IsSome(task.history) THEN Unwrap(task.history) ELSE << >>
    IN  [i \in 1..Len(history) |-> MessageViewOf(history[i])]
TaskStateText(task) == Some(DebugTaskState(task.status.state))

(* ---------------------------------------------------------------------- *)
(* submit_expense: the text of the message                                 *)
(* ---------------------------------------------------------------------- *)
ExpenseDetails(form) ==
    "I need to submit an expense reimbursement:\n\n"
    \o "Category: " \o form.category \o "\n"
    \o "Amount: $" \o form.amount \o "\n"
    \o "Date: " \o form.date \o "\n"
    \o (IF IsSome(form.vendor) THEN "Vendor: " \o Unwrap(form.vendor) \o "\n" ELSE "")
    \o "Description: " \o form.description \o "\n"
    \o (IF IsSome(form.project_code)
        THEN "Project/Cost Center: " \o Unwrap(form.project_code) \o "\n" ELSE "")

(* ---------------------------------------------------------------------- *)
(* send_message: the steps of message assembly                             *)
(* ---------------------------------------------------------------------- *)
\* faulty variant: a field without a name is taken for the text field
FieldNameOrMessage(field) == IF IsSome(field.name) THEN Unwrap(field.name) ELSE "message"

\* field.name().unwrap_or("")
FieldName(field) == IF IsSome(field.name) THEN Unwrap(field.name) ELSE ""

\* the "receipt" arm: a File part is pushed iff the data is not empty
PushReceipt(ps, field) ==
    IF field.data # << >>
    THEN Push(ps, PartFile(Base64Encode(field.data), field.file_name, field.content_type))
    ELSE ps

\* faulty variant: the text part is pushed instead of inserted at 0
WithTextPushed(ps, text) == IF text # "" THEN Push(ps, PartText(text)) ELSE ps

\* if !message_text.is_empty() { parts.insert(0, Part::text(message_text)) }
WithText(ps, text) == IF text # "" THEN Insert0(ps, PartText(text)) ELSE ps

\* faulty variant: the two checks in the other order
ValidateEmptyFirst(tid, ps) ==
    IF ps = << >> THEN Some("Message cannot be empty")
    ELSE IF tid = "" THEN Some("Missing task_id")
    ELSE None

\* faulty variant: the check of the parts is missing
ValidateTaskIdOnly(tid, ps) == IF tid = "" THEN Some("Missing task_id") ELSE None

\* faulty variant: the check of the task id is missing
ValidateMessageOnly(tid, ps) ==
    IF ps = << >> THEN Some("Message cannot be empty") ELSE None

\* the two checks after the loop, in the order of the code
Validate(tid, ps) ==
    IF tid = "" THEN Some("Missing task_id")
    ELSE IF ps = << >> THEN Some("Message cannot be empty")
    ELSE None

\* the errors with which reading field number i can end: next_field() may
\* fail at any position, text()/bytes() on the field the match arm reads
ReadErrors(fields, i) ==
    { "Failed to read multipart field" }
    \cup (IF i <= Len(fields) /\ FieldName(fields[i]) = "task_id"
          THEN { "Failed to read task_id" } ELSE { })
    \cup (IF i <= Len(fields) /\ FieldName(fields[i]) = "message"
          THEN { "Failed to read message" } ELSE { })
    \cup (IF i <= Len(fields) /\ FieldName(fields[i]) = "receipt"
          THEN { "Failed to read file" } ELSE { })

(* ---------------------------------------------------------------------- *)
(* The backend behind the external client: it accepts a submitted message  *)
(* at once and makes it visible to get_task later (eventually consistent)  *)
(* ---------------------------------------------------------------------- *)
BackendTasks == PathTaskIds

\* accepted[t]: the messages submit has accepted for task t, in order;
\* persisted[t]: how many of them get_task can see
EmptyBackend ==
    [accepted |-> [t \in BackendTasks |-> << >>],
     persisted |-> [t \in BackendTasks |-> 0]]

\* submit(taskId, message) -> Task: the task is created by its first message
BackendAccept(b, tid, msg) ==
    [b EXCEPT !.accepted[tid] = Append(@, msg)]

\* fetch(taskId) -> Task | NotFound: the task with its visible history, or
\* the error while none of its messages is visible
BackendFetch(b, tid) ==
    IF b.persisted[tid] = 0
    THEN [result |-> None, error |-> Some("TaskNotFound")]
    ELSE [result |-> Some([id |-> tid,
                           history |-> Some(SubSeq(b.accepted[tid], 1, b.persisted[tid])),
                           status |-> [state |-> "working"]]),
          error |-> None]

(* ---------------------------------------------------------------------- *)
(* The event stream of create_sse_stream: a subscription to the updates of *)
(* one task, relayed to one outbound connection                            *)
(* ---------------------------------------------------------------------- *)
\* the update events of a task
UpdateEvents(tid) ==
    { [kind |-> "status-update", task_id |-> tid, state |-> "working"],
      [kind |-> "artifact-update", task_id |-> tid, state |-> "working"],
      [kind |-> "status-update", task_id |-> tid, state |-> "completed"] }

\* what the subscription gives when asked for its next item
SubscriptionItems(tid) ==
    { [kind |-> "event", event |-> e] : e \in UpdateEvents(tid) }
    \cup { [kind |-> "end"], [kind |-> "error"] }

\* the server-sent event that carries one update
SseEvent(e) == [event |-> e.kind, data |-> e]

NoStream ==
    [connection |-> "none", subscription |-> "none", requested |-> 0,
     delivered |-> << >>, in_hand |-> None, relayed |-> << >>, ended_by |-> "none"]

\* the stream of a new connection: subscribed, nothing requested yet
OpenStream ==
    [connection |-> "open", subscription |-> "open", requested |-> 0,
     delivered |-> << >>, in_hand |-> None, relayed |-> << >>, ended_by |-> "none"]

\* faulty variant: an event equal to the one before it is not relayed
RelayedDeduplicated(out, e) ==
    IF out # << >> /\ out[Len(out)] = SseEvent(e) THEN out ELSE Append(out, SseEvent(e))

\* the event in hand is written to the outbound connection
Relayed(out, e) == Append(out, SseEvent(e))

\* faulty variant: the stream stops producing but keeps its subscription
TerminatedKeepingSubscription(st, cause) ==
    [st EXCEPT !.connection = "closed", !.in_hand = None, !.ended_by = cause]

\* the stream ends: connection closed, subscription released
Terminated(st, cause) ==
    [st EXCEPT !.connection = "closed", !.subscription = "released",
               !.in_hand = None, !.ended_by = cause]

\* Sse::new(stream): the response of stream_task
SseResponse(tid) == [kind |-> "sse", task_id |-> tid]

(* ---------------------------------------------------------------------- *)
(* Initial state: main has built AppState and serves; no request in flight *)
(* ---------------------------------------------------------------------- *)
NoRequest == [kind |-> "none"]

Init ==
    /\ webhook_token \in Secrets
    /\ handler = [p \in Req |-> "none"]
    /\ pc = [p \in Req |-> "idle"]
    /\ request = [p \in Req |-> NoRequest]
    /\ task_id = [p \in Req |-> ""]
    /\ message_text = [p \in Req |-> ""]
    /\ parts = [p \in Req |-> << >>]
    /\ cursor = [p \in Req |-> 0]
    /\ message = [p \in Req |-> None]
    /\ retry_count = [p \in Req |-> 0]
    /\ event = [p \in Req |-> None]
    /\ authenticated = [p \in Req |-> None]
    /\ calls = [p \in Req |-> << >>]
    /\ response = [p \in Req |-> NoResponse]
    /\ backend = EmptyBackend
    /\ stream = [p \in Req |-> NoStream]

\* task p ends with response r
Return(p, r) ==
    /\ response' = [response EXCEPT ![p] = r]
    /\ pc' = [pc EXCEPT ![p] = "done"]

\* task p goes on to the next .await
Goto(p, next) ==
    /\ pc' = [pc EXCEPT ![p] = next]
    /\ UNCHANGED response

\* task p has made call c
Called(p, c) == calls' = [calls EXCEPT ![p] = Append(@, c)]

\* a request is routed to handler h
Accept(p, h, r) ==
    /\ pc[p] = "idle"
    /\ handler' = [handler EXCEPT ![p] = h]
    /\ request' = [request EXCEPT ![p] = r]

(* ---------------------------------------------------------------------- *)
(* POST /chat/:task_id/send                                                *)
(* ---------------------------------------------------------------------- *)
\* a request with one of the given multipart bodies arrives; send_message
\* starts with empty locals
ReceiveSendMessage(p, forms) ==
    /\ pc[p] = "idle"
    /\ \E path_id \in PathTaskIds, fields \in forms :
          Accept(p, "send_message",
                 [kind |-> "send", path_task_id |-> path_id, fields |-> fields])
    /\ Goto(p, "next_field")
    /\ UNCHANGED << webhook_token, backend, stream, locals, calls >>

\* one iteration of the while-let loop: next_field() gives Some(field)
SendMessageField(p) ==
    /\ pc[p] = "next_field"
    /\ cursor[p] < Len(request[p].fields)
    /\ LET field == request[p].fields[cursor[p] + 1]
           name == FieldName(field)
       IN  /\ task_id' = [task_id EXCEPT ![p] = IF name = "task_id" THEN field.text ELSE @]
           /\ message_text' =
                  [message_text EXCEPT ![p] = IF name = "message" THEN field.text ELSE @]
           /\ parts' = [parts EXCEPT ![p] = IF name = "receipt" THEN PushReceipt(@, field) ELSE @]
    /\ cursor' = [cursor EXCEPT ![p] = @ + 1]
    /\ UNCHANGED << webhook_token, backend, stream, handler, pc, request, message, retry_count,
                    event, authenticated, calls, response >>

\* next_field(), text() or bytes() fails: the ? returns the error
SendMessageReadError(p) ==
    /\ pc[p] = "next_field"
    /\ \E e \in ReadErrors(request[p].fields, cursor[p] + 1) : Return(p, AppError(e))
    /\ UNCHANGED << webhook_token, backend, stream, handler, request, locals, calls >>

\* next_field() gives None: the text part is inserted, the two checks run
\* and the message is built
SendMessageAssemble(p) ==
    /\ pc[p] = "next_field"
    /\ cursor[p] = Len(request[p].fields)
    /\ LET ps == WithText(parts[p], message_text[p])
           failure == Validate(task_id[p], ps)
       IN  /\ parts' = [parts EXCEPT ![p] = ps]
           /\ IF IsSome(failure)
              THEN /\ Return(p, AppError(Unwrap(failure)))
                   /\ UNCHANGED message
              ELSE /\ message' = [message EXCEPT ![p] = Some(NewMessage(ps, task_id[p]))]
                   /\ Goto(p, "send_task_message")
    /\ UNCHANGED << webhook_token, backend, stream, handler, request, task_id, message_text, cursor,
                    retry_count, event, authenticated, calls >>

(* ---------------------------------------------------------------------- *)
(* POST /expense/submit                                                    *)
(* ---------------------------------------------------------------------- *)
\* the request arrives; submit_expense draws the task id and builds the message
ReceiveSubmitExpense(p) ==
    /\ \E form \in ExpenseForms, uuid \in Uuids :
          /\ Accept(p, "submit_expense", [kind |-> "expense", form |-> form])
          /\ task_id' = [task_id EXCEPT ![p] = uuid]
          /\ message' = [message EXCEPT ![p] =
                            Some(NewMessage(<< PartText(ExpenseDetails(form)) >>, uuid))]
    /\ Goto(p, "send_task_message")
    /\ UNCHANGED << webhook_token, backend, stream, message_text, parts, cursor, retry_count,
                    event, authenticated, calls >>

(* ---------------------------------------------------------------------- *)
(* The submission steps shared by send_message and submit_expense          *)
(* ---------------------------------------------------------------------- *)
\* .map_err(|e| AppError(anyhow!("Failed to ...: {}", e)))
SubmitError(h) ==
    IF h = "submit_expense" THEN "Failed to submit expense" ELSE "Failed to send message"

\* faulty variant: the error of send_task_message is not returned
AfterSubmitIgnoringError(ok) == "set_task_push_notification"

\* send_task_message(..).await.map_err(..)?: where the task goes on a result
AfterSubmit(ok) == IF ok THEN "set_task_push_notification" ELSE "done"

\* faulty variant: the error of set_task_push_notification is returned with ?
AfterRegisterPropagating(ok) == IF ok THEN "sleep" ELSE "done"

\* match set_task_push_notification(..).await { Ok(_) => info!, Err(e) => warn! }
AfterRegister(ok) == "sleep"

\* state.client.http.send_task_message(&task_id, &message, None, Some(50)).await
\* (the same call and ? in send_message and in submit_expense)
SubmitReturns(p, ok) ==
    /\ Called(p, CallSubmit(task_id[p], Unwrap(message[p]), ok))
    /\ IF AfterSubmit(ok) = "done"
       THEN Return(p, AppError(SubmitError(handler[p])))
       ELSE Goto(p, AfterSubmit(ok))
    /\ UNCHANGED << webhook_token, stream, handler, request, locals >>

\* the call against any backend: it returns Ok or Err
Submit(p) ==
    /\ pc[p] = "send_task_message"
    /\ \E ok \in BOOLEAN : SubmitReturns(p, ok)
    /\ UNCHANGED backend

\* state.client.http.set_task_push_notification(&push_config).await
\* (the same config and match in send_message and in submit_expense)
Register(p) ==
    /\ pc[p] = "set_task_push_notification"
    /\ \E ok \in BOOLEAN :
          /\ Called(p, CallRegister(PushConfig(task_id[p], webhook_token), ok))
          /\ IF AfterRegister(ok) = "done"
             THEN Return(p, AppError("Failed to register push notification"))
             ELSE Goto(p, AfterRegister(ok))
    /\ UNCHANGED << webhook_token, backend, stream, handler, request, locals >>

\* faulty variant: the redirect is returned without the delay
SettledImmediately(log) == log

\* tokio::time::sleep(Duration::from_millis(500)).await
Settled(log) == Append(log, CallSleep(SettleDelayMs))

\* tokio::time::sleep(500 ms).await; Ok(Redirect::to("/chat/{task_id}"))
SettleAndRedirect(p) ==
    /\ pc[p] = "sleep"
    /\ calls' = [calls EXCEPT ![p] = Settled(@)]
    /\ Return(p, RedirectTo(task_id[p]))
    /\ UNCHANGED << webhook_token, backend, stream, handler, request, locals >>

(* ---------------------------------------------------------------------- *)
(* GET /chat/:task_id                                                      *)
(* ---------------------------------------------------------------------- *)
ReceiveChatPage(p) ==
    /\ \E path_id \in PathTaskIds :
          Accept(p, "chat_page", [kind |-> "chat", path_task_id |-> path_id])
    /\ Goto(p, "get_task")
    /\ UNCHANGED << webhook_token, backend, stream, locals, calls >>

\* faulty variant: the comparison is off by one
RetriesExhaustedOffByOne(count) == count > max_retries

\* if retry_count >= max_retries
RetriesExhausted(count) == count >= max_retries

\* faulty variant: the Ok arm renders the status but drops the history
FetchedPageWithoutHistory(tid, task) == ChatTemplate(tid, << >>, TaskStateText(task))

\* break (messages, state) of the Ok arm
FetchedPage(tid, task) == ChatTemplate(tid, TaskMessages(task), TaskStateText(task))

\* faulty variant: the last error is returned when the retries are used up
ExhaustedPageAsError(tid, error) ==
    IF error = "TaskNotFound" THEN ChatTemplate(tid, << >>, None)
    ELSE AppError("Failed to get task")

\* break (vec![], None) of the Err arm: the error itself is only logged
ExhaustedPage(tid, error) == ChatTemplate(tid, << >>, None)

\* the match on one value of get_task: the Ok arm breaks with the page, the
\* Err arm counts the attempt and either breaks with the empty page or sleeps
ChatMatch(p, got) ==
    /\ Called(p, CallGetTask(request[p].path_task_id, got.result, got.error))
    /\ IF IsSome(got.result)
       THEN /\ Return(p, FetchedPage(request[p].path_task_id, Unwrap(got.result)))
            /\ UNCHANGED retry_count
       ELSE /\ retry_count' = [retry_count EXCEPT ![p] = @ + 1]
            /\ IF RetriesExhausted(retry_count[p] + 1)
               THEN Return(p, ExhaustedPage(request[p].path_task_id, Unwrap(got.error)))
               ELSE Goto(p, "retry_sleep")
    /\ UNCHANGED << webhook_token, backend, stream, handler, request, task_id, message_text, parts,
                    cursor, message, event, authenticated >>

\* state.client.http.get_task(&task_id, Some(50)).await and its match
ChatGetTask(p) ==
    /\ pc[p] = "get_task"
    /\ \E got \in GetTaskResults(request[p].path_task_id) : ChatMatch(p, got)

\* tokio::time::sleep(200 ms).await, then the loop goes round
ChatRetrySleep(p) ==
    /\ pc[p] = "retry_sleep"
    /\ Called(p, CallSleep(RetryDelayMs))
    /\ Goto(p, "get_task")
    /\ UNCHANGED << webhook_token, backend, stream, handler, request, locals >>

(* ---------------------------------------------------------------------- *)
(* POST /chat/:task_id/cancel                                              *)
(* ---------------------------------------------------------------------- *)
ReceiveCancelTask(p) ==
    /\ \E path_id \in PathTaskIds :
          Accept(p, "cancel_task", [kind |-> "cancel", path_task_id |-> path_id])
    /\ Goto(p, "cancel_task")
    /\ UNCHANGED << webhook_token, backend, stream, locals, calls >>

\* faulty variant: the error of cancel_task is dropped
CancelledIgnoringError(tid, ok) == RedirectTo(tid)

\* .map_err(|e| AppError(anyhow!("Failed to cancel task: {}", e)))?;
\* Ok(Redirect::to(&format!("/chat/{}", task_id)))
Cancelled(tid, ok) ==
    IF ok THEN RedirectTo(tid) ELSE AppError("Failed to cancel task")

\* state.client.http.cancel_task(&task_id).await.map_err(..)?
CancelTask(p) ==
    /\ pc[p] = "cancel_task"
    /\ \E ok \in BOOLEAN :
          /\ Called(p, CallCancel(request[p].path_task_id, ok))
          /\ Return(p, Cancelled(request[p].path_task_id, ok))
    /\ UNCHANGED << webhook_token, backend, stream, handler, request, locals >>

(* ---------------------------------------------------------------------- *)
(* POST /webhook/push-notification                                         *)
(* ---------------------------------------------------------------------- *)
\* a request arrives whose Authorization header is one of the given ones
ReceivePushNotification(p, headers) ==
    /\ pc[p] = "idle"
    /\ \E authorization \in headers, body \in Bodies :
          Accept(p, "handle_push_notification",
                 [kind |-> "push", authorization |-> authorization, body |-> body])
    /\ Goto(p, "extract")
    /\ UNCHANGED << webhook_token, backend, stream, locals, calls >>

\* the extractors of the handler's signature run before its body:
\* axum::Json(event) deserializes the request body or rejects the request
PushExtract(p) ==
    /\ pc[p] = "extract"
    /\ LET parsed == ParseEvent(request[p].body)
       IN  /\ event' = [event EXCEPT ![p] = parsed]
           /\ IF IsSome(parsed) THEN Goto(p, "handler") ELSE Return(p, JsonRejection)
    /\ UNCHANGED << webhook_token, backend, stream, handler, request, task_id, message_text, parts,
                    cursor, message, retry_count, authenticated, calls >>

\* the body of handle_push_notification
PushHandle(p) ==
    /\ pc[p] = "handler"
    /\ LET auth_header == AuthHeader(request[p].authorization)
           auth == Authenticated(auth_header, webhook_token)
       IN  /\ authenticated' = [authenticated EXCEPT ![p] = Some(auth)]
           /\ IF ~auth
              THEN Return(p, AppError("Unauthorized"))
              ELSE Return(p, JsonReceipt(Unwrap(event[p]).task_id))
    /\ UNCHANGED << webhook_token, backend, stream, handler, request, task_id, message_text, parts,
                    cursor, message, retry_count, event, calls >>

(* ---------------------------------------------------------------------- *)
(* GET /chat/:task_id/stream                                               *)
(* ---------------------------------------------------------------------- *)
ReceiveStreamTask(p) ==
    /\ \E path_id \in PathTaskIds :
          Accept(p, "stream_task", [kind |-> "stream", path_task_id |-> path_id])
    /\ Goto(p, "create_sse_stream")
    /\ UNCHANGED << webhook_token, backend, stream, locals, calls >>

\* create_sse_stream(state.client.clone(), task_id): the handler returns the
\* Sse response, whose body is the stream
StreamTask(p) ==
    /\ pc[p] = "create_sse_stream"
    /\ stream' = [stream EXCEPT ![p] = OpenStream]
    /\ response' = [response EXCEPT ![p] = SseResponse(request[p].path_task_id)]
    /\ pc' = [pc EXCEPT ![p] = "streaming"]
    /\ UNCHANGED << webhook_token, backend, handler, request, locals, calls >>

\* the stream asks its subscription for the next item and suspends until it
\* comes: an event is taken in hand, the end or an error terminates the stream
StreamNext(p) ==
    /\ pc[p] = "streaming"
    /\ stream[p].connection = "open"
    /\ stream[p].subscription = "open"
    /\ stream[p].in_hand = None
    /\ \E item \in SubscriptionItems(request[p].path_task_id) :
          /\ item.kind = "event" => Len(stream[p].delivered) < MaxEvents
          /\ LET asked == [stream[p] EXCEPT !.requested = @ + 1]
             IN  IF item.kind = "event"
                 THEN /\ stream' = [stream EXCEPT ![p] =
                                       [asked EXCEPT !.delivered = Append(@, item.event),
                                                     !.in_hand = Some(item.event)]]
                      /\ UNCHANGED pc
                 ELSE /\ stream' = [stream EXCEPT ![p] = Terminated(asked, item.kind)]
                      /\ pc' = [pc EXCEPT ![p] = "done"]
    /\ UNCHANGED << webhook_token, backend, handler, request, locals, calls, response >>

\* the event in hand is relayed
StreamRelay(p) ==
    /\ pc[p] = "streaming"
    /\ stream[p].connection = "open"
    /\ IsSome(stream[p].in_hand)
    /\ stream' = [stream EXCEPT ![p] =
                     [@ EXCEPT !.relayed = Relayed(@, Unwrap(stream[p].in_hand)),
                               !.in_hand = None]]
    /\ UNCHANGED << webhook_token, backend, handler, pc, request, locals, calls, response >>

\* the browser closes the connection: the stream is dropped
StreamClose(p) ==
    /\ pc[p] = "streaming"
    /\ stream[p].connection = "open"
    /\ stream' = [stream EXCEPT ![p] = Terminated(@, "close")]
    /\ pc' = [pc EXCEPT ![p] = "done"]
    /\ UNCHANGED << webhook_token, backend, handler, request, locals, calls, response >>

(* ---------------------------------------------------------------------- *)
(* The calls of send_message and chat_page against the backend             *)
(* ---------------------------------------------------------------------- *)
\* send_task_message: the backend accepts the message, or the call fails;
\* it accepts at most MaxStored messages for a task
BackendSubmit(p) ==
    /\ pc[p] = "send_task_message"
    /\ \E ok \in BOOLEAN :
          /\ ok => /\ task_id[p] \in BackendTasks
                   /\ Len(backend.accepted[task_id[p]]) < MaxStored
          /\ SubmitReturns(p, ok)
          /\ backend' = IF ok THEN BackendAccept(backend, task_id[p], Unwrap(message[p]))
                        ELSE backend

\* the backend makes the next accepted message of a task visible
BackendPersist(tid) ==
    /\ backend.persisted[tid] < Len(backend.accepted[tid])
    /\ backend' = [backend EXCEPT !.persisted[tid] = @ + 1]
    /\ UNCHANGED << webhook_token, stream, handler, pc, request, locals, calls, response >>

\* get_task: the backend's answer, or the call fails on the way
BackendGetTask(p) ==
    /\ pc[p] = "get_task"
    /\ \E got \in { BackendFetch(backend, request[p].path_task_id),
                     [result |-> None, error |-> Some("Transport")] } :
          ChatMatch(p, got)

(* ---------------------------------------------------------------------- *)
(* The response has been sent: the request task is dropped                 *)
(* ---------------------------------------------------------------------- *)
Complete(p) ==
    /\ pc[p] = "done"
    /\ handler' = [handler EXCEPT ![p] = "none"]
    /\ pc' = [pc EXCEPT ![p] = "idle"]
    /\ request' = [request EXCEPT ![p] = NoRequest]
    /\ task_id' = [task_id EXCEPT ![p] = ""]
    /\ message_text' = [message_text EXCEPT ![p] = ""]
    /\ parts' = [parts EXCEPT ![p] = << >>]
    /\ cursor' = [cursor EXCEPT ![p] = 0]
    /\ message' = [message EXCEPT ![p] = None]
    /\ retry_count' = [retry_count EXCEPT ![p] = 0]
    /\ event' = [event EXCEPT ![p] = None]
    /\ authenticated' = [authenticated EXCEPT ![p] = None]
    /\ calls' = [calls EXCEPT ![p] = << >>]
    /\ response' = [response EXCEPT ![p] = NoResponse]
    /\ stream' = [stream EXCEPT ![p] = NoStream]
    /\ UNCHANGED << webhook_token, backend >>

(* ---------------------------------------------------------------------- *)
(* Specifications                                                          *)
(* ---------------------------------------------------------------------- *)
\* the headers sent to the running system
SystemHeaders(s) == { None, Some(BearerPrefix \o s), Some(BearerPrefix \o << 120 >>) }

\* the whole server: any handler, on any request slot
Next ==
    \E p \in Serving :
        \/ ReceiveSendMessage(p, SystemForms)
        \/ SendMessageField(p)
        \/ SendMessageReadError(p)
        \/ SendMessageAssemble(p)
        \/ ReceiveSubmitExpense(p)
        \/ Submit(p)
        \/ Register(p)
        \/ SettleAndRedirect(p)
        \/ ReceiveChatPage(p)
        \/ ChatGetTask(p)
        \/ ChatRetrySleep(p)
        \/ ReceiveCancelTask(p)
        \/ CancelTask(p)
        \/ ReceivePushNotification(p, SystemHeaders(webhook_token))
        \/ PushExtract(p)
        \/ PushHandle(p)
        \/ Complete(p)

Spec == Init /\ [][Next]_vars

\* message assembly alone: one send_message request over every field
\* sequence of at most MaxFields fields, up to the built message
NextAssemble ==
    \/ ReceiveSendMessage(1, AssembleForms)
    \/ SendMessageField(1)
    \/ SendMessageReadError(1)
    \/ SendMessageAssemble(1)

InitAssemble == Init /\ webhook_token = GeneratedSecret

SpecAssemble == InitAssemble /\ [][NextAssemble]_vars

\* the webhook receiver alone, over every header and body
NextWebhook ==
    \/ ReceivePushNotification(1, Headers(webhook_token))
    \/ PushExtract(1)
    \/ PushHandle(1)
    \/ Complete(1)

SpecWebhook == Init /\ [][NextWebhook]_vars

\* requests of the three kinds in flight together: one well-formed message
\* form, fetches that succeed or fail, and webhooks with the right header
\* and with a header that differs from it in the case of one letter
ConcurrentForms ==
    { << TextField(Some("task_id"), "t1"), TextField(Some("message"), "hello") >> }

ConcurrentHeaders(s) ==
    { Some(BearerPrefix \o s), Some(<< 98, 101, 97, 114, 101, 114, 32 >> \o s) }

ConcurrentResults(tid) ==
    { got \in GetTaskResults(tid) :
          \/ got.error = Some("TaskNotFound")
          \/ (IsSome(got.result) /\ IsSome(Unwrap(got.result).history)) }

NextConcurrent ==
    \E p \in Concurrent :
        \/ ReceiveSendMessage(p, ConcurrentForms)
        \/ SendMessageField(p)
        \/ SendMessageAssemble(p)
        \/ Submit(p)
        \/ Register(p)
        \/ SettleAndRedirect(p)
        \/ ReceiveChatPage(p)
        \/ (pc[p] = "get_task"
            /\ \E got \in ConcurrentResults(request[p].path_task_id) : ChatMatch(p, got))
        \/ ChatRetrySleep(p)
        \/ ReceivePushNotification(p, ConcurrentHeaders(webhook_token))
        \/ PushExtract(p)
        \/ PushHandle(p)
        \/ Complete(p)

InitConcurrent == Init /\ webhook_token \in { GeneratedSecret, << 115, 51, 99 >> }

SpecConcurrent == InitConcurrent /\ [][NextConcurrent]_vars

\* message assembly on a form and on the same form without the fields that
\* no match arm names: request 1 assembles a form of at most MaxProbe fields,
\* then request 2 assembles what is left of it when those fields are removed
ProbeValues ==
    { TextField(Some("task_id"), "t1"),
      TextField(Some("message"), "hello"),
      TextField(Some("message"), ""),
      FileField(Some("receipt"), Some("a.png"), Some("image/png"), << 137, 80, 78, 71, 10 >>),
      TextField(Some("csrf"), "x"),
      TextField(None, "task_id"),
      FileField(Some("avatar"), Some("b.png"), Some("image/png"), << 255 >>) }

RECURSIVE ProbeSeqs(_)
ProbeSeqs(n) ==
    IF n = 0 THEN { << >> }
    ELSE LET shorter == ProbeSeqs(n - 1)
         IN  shorter \cup { Append(f, v) : f \in shorter, v \in ProbeValues }

ProbeForms == ProbeSeqs(MaxProbe)

\* the fields of the three match arms "task_id", "message", "receipt"
KnownFields(fields) ==
    SelectSeq(fields, LAMBDA f : f.name \in { Some("task_id"), Some("message"), Some("receipt") })

NextUnknownFields ==
    \/ ReceiveSendMessage(1, ProbeForms)
    \/ SendMessageField(1)
    \/ SendMessageAssemble(1)
    \/ (pc[1] \in {"send_task_message", "done"}
        /\ ReceiveSendMessage(2, { KnownFields(request[1].fields) }))
    \/ SendMessageField(2)
    \/ SendMessageAssemble(2)

SpecUnknownFields == InitAssemble /\ [][NextUnknownFields]_vars

\* a message sent and then viewed: one request at a time, send_message of a
\* well-formed form for task t1 and chat_page, against the backend
StoredForms ==
    { << TextField(Some("task_id"), "t1"), TextField(Some("message"), "hello") >>,
      << TextField(Some("task_id"), "t1"),
         FileField(Some("receipt"), Some("a.png"), Some("image/png"), << 137, 80, 78, 71, 10 >>) >> }

NextReadAfterWrite ==
    \/ ReceiveSendMessage(1, StoredForms)
    \/ SendMessageField(1)
    \/ SendMessageAssemble(1)
    \/ BackendSubmit(1)
    \/ Register(1)
    \/ SettleAndRedirect(1)
    \/ \E tid \in BackendTasks : BackendPersist(tid)
    \/ ReceiveChatPage(1)
    \/ BackendGetTask(1)
    \/ ChatRetrySleep(1)
    \/ Complete(1)

SpecReadAfterWrite == InitAssemble /\ [][NextReadAfterWrite]_vars

\* two event streams side by side
Streams == {1, 2}

NextStream ==
    \E p \in Streams :
        \/ ReceiveStreamTask(p)
        \/ StreamTask(p)
        \/ StreamNext(p)
        \/ StreamRelay(p)
        \/ StreamClose(p)
        \/ Complete(p)

SpecStream == InitAssemble /\ [][NextStream]_vars

(* ====================================================================== *)
(* Properties                                                              *)
(* ====================================================================== *)
\* the request task p runs one of the two submission entry points
Submitting(p) == handler[p] \in {"send_message", "submit_expense"}

\* positions of the calls of task p with the given op
CallsAt(p, op) == { i \in 1..Len(calls[p]) : calls[p][i].op = op }

(* ---------------------------------------------------------------------- *)
(* C1: in send_message and submit_expense, a webhook registration is       *)
(* attempted only after the submit call of the same request has returned   *)
(* Ok; when submit returns Err it is the request's last call, the request  *)
(* has ended with the upstream error, and there is no registration, no     *)
(* settle delay and no redirect.                                           *)
(* ---------------------------------------------------------------------- *)
C1_RegistrationOnlyAfterSubmitOk ==
    \A p \in Req :
        Submitting(p) =>
            /\ \A i \in CallsAt(p, "set_task_push_notification") :
                   \E j \in 1..(i - 1) :
                       calls[p][j].op = "send_task_message" /\ calls[p][j].ok
            /\ \A j \in CallsAt(p, "send_task_message") :
                   ~calls[p][j].ok =>
                       /\ j = Len(calls[p])
                       /\ CallsAt(p, "set_task_push_notification") = { }
                       /\ CallsAt(p, "sleep") = { }
                       /\ pc[p] = "done"
                       /\ response[p] = AppError(SubmitError(handler[p]))

\* a submit_expense request whose registration attempt follows its successful submit
C1_Witness ==
    \E p \in Req :
        /\ handler[p] = "submit_expense"
        /\ Ops(calls[p]) = << "send_task_message", "set_task_push_notification" >>
        /\ calls[p][1].ok

(* ---------------------------------------------------------------------- *)
(* C2: in send_message and submit_expense, a request whose submit returned *)
(* Ok makes exactly one registration attempt, and ends with the redirect   *)
(* to /chat/<task id> whether that attempt returned Ok or Err; no request  *)
(* whose submit returned Ok ends with an error.                            *)
(* ---------------------------------------------------------------------- *)
C2_RegistrationFailureSwallowed ==
    \A p \in Req :
        Submitting(p) =>
            /\ Cardinality(CallsAt(p, "set_task_push_notification")) <= 1
            /\ (pc[p] = "done" /\ \E j \in CallsAt(p, "send_task_message") : calls[p][j].ok) =>
                   /\ Cardinality(CallsAt(p, "set_task_push_notification")) = 1
                   /\ response[p].kind = "redirect"
                   /\ response[p].location = "/chat/" \o Unwrap(calls[p][1].message.task_id)

\* a send_message request that was redirected although its registration failed
C2_Witness ==
    \E p \in Req :
        /\ handler[p] = "send_message"
        /\ pc[p] = "done"
        /\ response[p].kind = "redirect"
        /\ \E i \in CallsAt(p, "set_task_push_notification") : ~calls[p][i].ok

(* ---------------------------------------------------------------------- *)
(* C3: a chat_page request all of whose fetches failed has, when it ends,  *)
(* made exactly 3 get_task calls with one 200 ms sleep between consecutive *)
(* ones (none after the last), and renders an empty history and an absent  *)
(* status; no chat_page request ever makes a fourth fetch.                 *)
(* ---------------------------------------------------------------------- *)
C3_ThreeAttemptsThenEmpty ==
    \A p \in Req :
        handler[p] = "chat_page" =>
            /\ Cardinality(CallsAt(p, "get_task")) <= 3
            /\ (pc[p] = "done" /\ \A i \in CallsAt(p, "get_task") : ~calls[p][i].ok) =>
                   /\ Ops(calls[p]) = << "get_task", "sleep", "get_task", "sleep", "get_task" >>
                   /\ \A i \in CallsAt(p, "sleep") : calls[p][i].ms = 200
                   /\ response[p].kind = "page"
                   /\ response[p].messages = << >>
                   /\ response[p].task_state = None

\* a chat_page request that ended after three failed fetches
C3_Witness ==
    \E p \in Req :
        /\ handler[p] = "chat_page"
        /\ pc[p] = "done"
        /\ Cardinality(CallsAt(p, "get_task")) = 3
        /\ \A i \in CallsAt(p, "get_task") : ~calls[p][i].ok

(* ---------------------------------------------------------------------- *)
(* C4: in a chat_page request, a successful fetch is the request's last    *)
(* call (no fetch and no delay follows it), it is attempt k <= 3 after     *)
(* k - 1 failed attempts and k - 1 delays, and the page rendered is the    *)
(* history (empty when the task has none) and the status of the task that  *)
(* this fetch returned.                                                    *)
(* ---------------------------------------------------------------------- *)
C4_StateName ==
    [ s \in {"submitted", "working", "input-required", "completed", "canceled", "failed"} |->
        CASE s = "submitted" -> "Submitted"
          [] s = "working" -> "Working"
          [] s = "input-required" -> "InputRequired"
          [] s = "completed" -> "Completed"
          [] s = "canceled" -> "Canceled"
          [] s = "failed" -> "Failed" ]

C4_FirstSuccessReturned ==
    \A p \in Req :
        handler[p] = "chat_page" =>
            \A k \in CallsAt(p, "get_task") :
                calls[p][k].ok =>
                    LET task == Unwrap(calls[p][k].result)
                        history == IF IsSome(task.history) THEN Unwrap(task.history) ELSE << >>
                    IN  /\ k = Len(calls[p])
                        /\ k \in {1, 3, 5}
                        /\ \A i \in 1..(k - 1) :
                               calls[p][i].op = (IF i % 2 = 1 THEN "get_task" ELSE "sleep")
                        /\ pc[p] = "done"
                        /\ response[p].kind = "page"
                        /\ Len(response[p].messages) = Len(history)
                        /\ \A i \in 1..Len(history) : response[p].messages[i].view_of = history[i]
                        /\ response[p].task_state = Some(C4_StateName[task.status.state])

\* a chat_page request whose second fetch succeeded with a task that has a history
C4_Witness ==
    \E p \in Req :
        /\ handler[p] = "chat_page"
        /\ pc[p] = "done"
        /\ Ops(calls[p]) = << "get_task", "sleep", "get_task" >>
        /\ calls[p][3].ok
        /\ response[p].messages # << >>

(* ---------------------------------------------------------------------- *)
(* Webhook receiver                                                        *)
(* ---------------------------------------------------------------------- *)
\* the header is text (visible ASCII or tab) and reads "Bearer " followed by
\* exactly the secret
ExactBearer(authorization) ==
    /\ IsSome(authorization)
    /\ \A i \in 1..Len(Unwrap(authorization)) :
           Unwrap(authorization)[i] \in (32..126) \cup {9}
    /\ Unwrap(authorization) = << 66, 101, 97, 114, 101, 114, 32 >> \o webhook_token

Pushing(p) == handler[p] = "handle_push_notification"

(* ---------------------------------------------------------------------- *)
(* C5: the authentication check of a webhook request gives true if and     *)
(* only if the request carries an Authorization header that is the text    *)
(* "Bearer " followed by exactly the process-wide secret; a request with   *)
(* no Authorization header, another scheme or another token never ends     *)
(* with a receipt (it is rejected).                                        *)
(* ---------------------------------------------------------------------- *)
C5_AuthenticatedIffExactBearer ==
    \A p \in Req :
        Pushing(p) =>
            /\ IsSome(authenticated[p]) =>
                   (Unwrap(authenticated[p]) <=> ExactBearer(request[p].authorization))
            /\ (pc[p] = "done" /\ ~ExactBearer(request[p].authorization)) =>
                   response[p].kind \in {"error", "rejection"}

\* a webhook request with the exact Bearer header that was authenticated
C5_Witness ==
    \E p \in Req :
        /\ Pushing(p)
        /\ pc[p] = "done"
        /\ ExactBearer(request[p].authorization)
        /\ authenticated[p] = Some(TRUE)

(* ---------------------------------------------------------------------- *)
(* C6: a webhook request's payload is parsed only after the request's      *)
(* authentication check has passed, and a request without the exact Bearer *)
(* header ends with the authentication error whatever its body is.         *)
(* ---------------------------------------------------------------------- *)
C6_RejectedBeforeParsing ==
    \A p \in Req :
        Pushing(p) =>
            /\ IsSome(event[p]) => authenticated[p] = Some(TRUE)
            /\ (pc[p] = "done" /\ ~ExactBearer(request[p].authorization)) =>
                   response[p] = AppError("Unauthorized")

(* ---------------------------------------------------------------------- *)
(* C7: a webhook request whose authentication check passed ends with the   *)
(* receipt {status: "received", task_id, authenticated: true} whose        *)
(* task_id is the task identifier of the event in the request's body; a    *)
(* request that ends with a receipt passed the check, so no rejected       *)
(* request produces one.                                                   *)
(* ---------------------------------------------------------------------- *)
C7_ReceiptEchoesTaskId ==
    \A p \in Req :
        (Pushing(p) /\ pc[p] = "done") =>
            /\ authenticated[p] = Some(TRUE) =>
                   /\ response[p].kind = "json"
                   /\ response[p].status = "received"
                   /\ response[p].authenticated = TRUE
                   /\ IsSome(request[p].body.json)
                   /\ response[p].task_id = Unwrap(request[p].body.json).task_id
            /\ response[p].kind = "json" =>
                   /\ authenticated[p] = Some(TRUE)
                   /\ ExactBearer(request[p].authorization)

\* an authenticated webhook request for task t2 that was acknowledged
C7_Witness ==
    \E p \in Req :
        /\ Pushing(p)
        /\ pc[p] = "done"
        /\ authenticated[p] = Some(TRUE)
        /\ response[p].kind = "json"
        /\ response[p].task_id = "t2"

(* ---------------------------------------------------------------------- *)
(* Message assembly                                                        *)
(* ---------------------------------------------------------------------- *)
\* the fields of the request with the given name, in arrival order
FieldsNamed(fields, n) == SelectSeq(fields, LAMBDA f : f.name = Some(n))

\* the value of the last field with the given name, "" when there is none
LastText(fields, n) ==
    LET named == FieldsNamed(fields, n)
    IN  IF named = << >> THEN "" ELSE named[Len(named)].text

\* the attachments that carry data, in arrival order
Attachments(fields) ==
    SelectSeq(fields, LAMBDA f : f.name = Some("receipt") /\ f.data # << >>)

\* the request ended because reading the multipart stream failed
ReadFailed(p) ==
    /\ response[p].kind = "error"
    /\ response[p].error \in { "Failed to read multipart field", "Failed to read task_id",
                               "Failed to read message", "Failed to read file" }

(* ---------------------------------------------------------------------- *)
(* C8: when send_message has assembled a message, its parts are: the Text  *)
(* part of the text field at position 0 iff the text field (the last       *)
(* "message" field) is not empty, followed by one File part for each       *)
(* attachment with data, in arrival order, carrying its name, MIME type    *)
(* and base64 data.                                                        *)
(* ---------------------------------------------------------------------- *)
C8_TextFirstThenAttachments ==
    \A p \in Req :
        (handler[p] = "send_message" /\ IsSome(message[p])) =>
            LET ps == Unwrap(message[p]).parts
                text == LastText(request[p].fields, "message")
                files == Attachments(request[p].fields)
                lead == IF text # "" THEN 1 ELSE 0
            IN  /\ Len(ps) = lead + Len(files)
                /\ text # "" => (ps[1].kind = "text" /\ ps[1].text = text)
                /\ \A i \in 1..Len(ps) : (ps[i].kind = "text") <=> (text # "" /\ i = 1)
                /\ \A i \in 1..Len(files) :
                       /\ ps[lead + i].kind = "file"
                       /\ ps[lead + i].file.name = files[i].file_name
                       /\ ps[lead + i].file.mime_type = files[i].content_type
                       /\ ps[lead + i].file.bytes = Some(Base64Encode(files[i].data))

\* a message assembled from a form whose text field arrived after two attachments
C8_Witness ==
    \E p \in Req :
        /\ handler[p] = "send_message"
        /\ IsSome(message[p])
        /\ Len(Unwrap(message[p]).parts) = 3
        /\ Unwrap(message[p]).parts[1].kind = "text"
        /\ Unwrap(message[p]).parts[2].file.name # Unwrap(message[p]).parts[3].file.name
        /\ FieldName(request[p].fields[Len(request[p].fields)]) = "message"

(* ---------------------------------------------------------------------- *)
(* C9: a send_message request whose form has no task_id field never gets   *)
(* a message assembled, and, unless reading the form fails, ends with the  *)
(* error "Missing task_id", also when the form has no text and no          *)
(* attachment.                                                             *)
(* ---------------------------------------------------------------------- *)
C9_MissingTaskId ==
    \A p \in Req :
        (handler[p] = "send_message" /\ FieldsNamed(request[p].fields, "task_id") = << >>) =>
            /\ message[p] = None
            /\ pc[p] \in {"next_field", "done"}
            /\ (pc[p] = "done" /\ ~ReadFailed(p)) => response[p] = AppError("Missing task_id")

\* a form with neither task_id nor content that ended with "Missing task_id"
C9_Witness ==
    \E p \in Req :
        /\ handler[p] = "send_message"
        /\ FieldsNamed(request[p].fields, "task_id") = << >>
        /\ LastText(request[p].fields, "message") = ""
        /\ Attachments(request[p].fields) = << >>
        /\ request[p].fields # << >>
        /\ response[p] = AppError("Missing task_id")

(* ---------------------------------------------------------------------- *)
(* C10 as stated: a send_message request whose form has neither text nor   *)
(* an attachment with data ends, unless reading the form fails, with the   *)
(* error "Message cannot be empty".                                        *)
(* ---------------------------------------------------------------------- *)
NoContent(p) ==
    /\ LastText(request[p].fields, "message") = ""
    /\ Attachments(request[p].fields) = << >>

C10_EmptyMessageAsStated ==
    \A p \in Req :
        (handler[p] = "send_message" /\ NoContent(p)) =>
            /\ message[p] = None
            /\ (pc[p] = "done" /\ ~ReadFailed(p)) =>
                   response[p] = AppError("Message cannot be empty")

(* ---------------------------------------------------------------------- *)
(* C10 amended: a send_message request whose form has a non-empty task     *)
(* identifier and neither text nor an attachment with data never gets a    *)
(* message assembled and ends, unless reading the form fails, with the     *)
(* error "Message cannot be empty"; without a task identifier it ends with *)
(* "Missing task_id" instead.                                              *)
(* ---------------------------------------------------------------------- *)
C10_EmptyMessageWithTaskId ==
    \A p \in Req :
        (handler[p] = "send_message" /\ NoContent(p)) =>
            /\ message[p] = None
            /\ pc[p] \in {"next_field", "done"}
            /\ (pc[p] = "done" /\ ~ReadFailed(p)) =>
                   response[p] = (IF LastText(request[p].fields, "task_id") # ""
                                  THEN AppError("Message cannot be empty")
                                  ELSE AppError("Missing task_id"))

\* a form with a task identifier and an empty attachment only, ended with
\* "Message cannot be empty"
C10_Witness ==
    \E p \in Req :
        /\ handler[p] = "send_message"
        /\ NoContent(p)
        /\ LastText(request[p].fields, "task_id") = "t1"
        /\ FieldsNamed(request[p].fields, "receipt") # << >>
        /\ response[p] = AppError("Message cannot be empty")

(* ---------------------------------------------------------------------- *)
(* C11: a send_message request whose form fails validation (no task        *)
(* identifier, or neither text nor attachment data) makes no call at all:  *)
(* no submit, no webhook registration, no settle delay, and it is never    *)
(* answered with a redirect; a request that ended with "Missing task_id"   *)
(* or "Message cannot be empty" has an empty call log and no message.      *)
(* ---------------------------------------------------------------------- *)
ValidationErrors == { AppError("Missing task_id"), AppError("Message cannot be empty") }

C11_ValidationBeforeBackend ==
    \A p \in Req :
        handler[p] = "send_message" =>
            /\ (LastText(request[p].fields, "task_id") = "" \/ NoContent(p)) =>
                   /\ calls[p] = << >>
                   /\ message[p] = None
                   /\ response[p].kind # "redirect"
                   /\ pc[p] \in {"next_field", "done"}
                   /\ (pc[p] = "done" /\ ~ReadFailed(p)) => response[p] \in ValidationErrors
            /\ response[p] \in ValidationErrors =>
                   /\ calls[p] = << >>
                   /\ message[p] = None
                   /\ pc[p] = "done"

\* a form with text but without a task identifier, ended with "Missing task_id"
\* and no call
C11_Witness ==
    \E p \in Req :
        /\ handler[p] = "send_message"
        /\ LastText(request[p].fields, "message") # ""
        /\ response[p] = AppError("Missing task_id")
        /\ calls[p] = << >>

(* ---------------------------------------------------------------------- *)
(* C12: a chat_page request is never answered with an error, whatever the  *)
(* errors get_task returns: it makes at most 3 get_task calls and ends     *)
(* with a page, which shows the history and status of the one task fetched *)
(* when a fetch succeeded, and an empty history and no status when all     *)
(* three fetches failed, whatever the kinds of the three errors.           *)
(* ---------------------------------------------------------------------- *)
FetchFailures(p) == { i \in CallsAt(p, "get_task") : ~calls[p][i].ok }
FetchSuccesses(p) == { i \in CallsAt(p, "get_task") : calls[p][i].ok }

C12_FetchNeverPropagatesError ==
    \A p \in Req :
        handler[p] = "chat_page" =>
            /\ response[p].kind \in {"none", "page"}
            /\ Cardinality(CallsAt(p, "get_task")) <= 3
            /\ Cardinality(FetchSuccesses(p)) <= 1
            /\ \A i \in FetchFailures(p) : calls[p][i].error # None
            /\ pc[p] = "done" =>
                   /\ response[p].kind = "page"
                   /\ response[p].task_id = request[p].path_task_id
                   /\ FetchSuccesses(p) = { } =>
                          /\ Cardinality(FetchFailures(p)) = 3
                          /\ response[p].messages = << >>
                          /\ response[p].task_state = None
                   /\ \A k \in FetchSuccesses(p) :
                          /\ \A i \in FetchFailures(p) : i < k
                          /\ response[p].messages = TaskMessages(Unwrap(calls[p][k].result))
                          /\ response[p].task_state # None
            /\ pc[p] # "done" => FetchSuccesses(p) = { }

\* three failed fetches of three different kinds, answered with the empty page
C12_Witness ==
    \E p \in Req :
        /\ handler[p] = "chat_page"
        /\ pc[p] = "done"
        /\ { Unwrap(calls[p][i].error) : i \in FetchFailures(p) } = GetTaskErrors
        /\ response[p] = ChatTemplate(request[p].path_task_id, << >>, None)

(* ---------------------------------------------------------------------- *)
(* C14: in send_message and submit_expense the 500 ms settle delay is the  *)
(* call right after the registration call, whether that call returned Ok   *)
(* or Err, and a request answered with a redirect has made exactly the     *)
(* calls submit, register, settle delay, in this order.                    *)
(* ---------------------------------------------------------------------- *)
C14_SettleDelayBeforeRedirect ==
    \A p \in Req :
        Submitting(p) =>
            /\ \A i \in CallsAt(p, "sleep") :
                   /\ calls[p][i].ms = 500
                   /\ i > 1
                   /\ calls[p][i - 1].op = "set_task_push_notification"
                   /\ pc[p] = "done"
            /\ \A i \in CallsAt(p, "set_task_push_notification") :
                   i = Len(calls[p]) => pc[p] = "sleep"
            /\ response[p].kind = "redirect" =>
                   /\ Ops(calls[p]) =
                          << "send_task_message", "set_task_push_notification", "sleep" >>
                   /\ calls[p][3].ms = 500
                   /\ response[p].location = "/chat/" \o task_id[p]

\* a submit_expense request redirected after a failed registration and the delay
C14_Witness ==
    \E p \in Req :
        /\ handler[p] = "submit_expense"
        /\ response[p].kind = "redirect"
        /\ Len(calls[p]) = 3
        /\ ~calls[p][2].ok
        /\ calls[p][3] = CallSleep(500)

(* ---------------------------------------------------------------------- *)
(* C19: a cancel_task request makes one call, cancel_task of the task      *)
(* identifier of its path, and no other; when the call returns Err the     *)
(* request ends with the error "Failed to cancel task" and no redirect,    *)
(* when it returns Ok the request is redirected to /chat/<that id>.        *)
(* ---------------------------------------------------------------------- *)
C19_CancelOnce ==
    \A p \in Req :
        handler[p] = "cancel_task" =>
            /\ Len(calls[p]) <= 1
            /\ \A i \in 1..Len(calls[p]) :
                   /\ calls[p][i].op = "cancel_task"
                   /\ calls[p][i].task_id = request[p].path_task_id
            /\ (pc[p] = "done") <=> (Len(calls[p]) = 1)
            /\ pc[p] = "done" =>
                   IF calls[p][1].ok
                   THEN /\ response[p].kind = "redirect"
                        /\ response[p].location = "/chat/" \o request[p].path_task_id
                   ELSE /\ response[p].kind = "error"
                        /\ response[p].error = "Failed to cancel task"

\* a cancel request that ended with the upstream error after its one call
C19_Witness ==
    \E p \in Req :
        /\ handler[p] = "cancel_task"
        /\ pc[p] = "done"
        /\ Len(calls[p]) = 1
        /\ ~calls[p][1].ok
        /\ response[p].kind = "error"

(* ---------------------------------------------------------------------- *)
(* C15: with submissions, fetches and webhooks in flight together, no step *)
(* of any request changes webhook_token; the config of every registration  *)
(* call carries Some(webhook_token) as its token; and the authenticated    *)
(* flag of every webhook request is the comparison of its header's token   *)
(* with webhook_token.                                                     *)
(* ---------------------------------------------------------------------- *)
C15_SecretAt(p) ==
    /\ \A i \in CallsAt(p, "set_task_push_notification") :
           /\ calls[p][i].config.token = Some(webhook_token)
           /\ calls[p][i].config.task_id = task_id[p]
    /\ (Pushing(p) /\ authenticated[p] # None) =>
           authenticated[p] = Some(ExactBearer(request[p].authorization))

C15_SecretImmutableAndShared ==
    /\ [](\A p \in Req : C15_SecretAt(p))
    /\ [][webhook_token' = webhook_token]_vars

\* a registration that carried the secret is in one request's call log while
\* another request has authenticated a webhook against the same secret
C15_Witness ==
    \E p, q \in Req :
        /\ p # q
        /\ \E i \in CallsAt(p, "set_task_push_notification") :
               calls[p][i].config.token = Some(webhook_token)
        /\ Pushing(q)
        /\ authenticated[q] = Some(TRUE)
        /\ webhook_token = << 115, 51, 99 >>

(* ---------------------------------------------------------------------- *)
(* C20: the response of a finished webhook request is a function of its    *)
(* Authorization header, its body and webhook_token alone: the extractor's *)
(* rejection for a body that is not an event, else the receipt for the     *)
(* header "Bearer <secret>", else "Unauthorized"; two webhook requests     *)
(* with the same header and body have the same response, whatever other    *)
(* requests were answered before or are in flight.                         *)
(* ---------------------------------------------------------------------- *)
C20_Outcome(p) ==
    IF request[p].body.json = None THEN "rejection"
    ELSE IF ExactBearer(request[p].authorization) THEN "json"
    ELSE "error"

C20_FreshPerRequest ==
    \A p \in Req :
        (Pushing(p) /\ pc[p] = "done") =>
            /\ response[p].kind = C20_Outcome(p)
            /\ response[p].kind = "error" => response[p].error = "Unauthorized"
            /\ response[p].kind = "json" =>
                   response[p].task_id = Unwrap(request[p].body.json).task_id
            /\ \A q \in Req :
                   (Pushing(q) /\ pc[q] = "done" /\ request[q] = request[p]) =>
                       response[q] = response[p]

\* a webhook is accepted while an earlier one with the same body, rejected
\* for its header, has not yet been dropped
C20_Witness ==
    \E p, q \in Req :
        /\ p # q
        /\ Pushing(p) /\ pc[p] = "done" /\ response[p].kind = "error"
        /\ Pushing(q) /\ pc[q] = "done" /\ response[q].kind = "json"
        /\ request[p].body = request[q].body

(* ---------------------------------------------------------------------- *)
(* C18: two send_message requests whose forms are the same once the fields *)
(* named neither "task_id", "message" nor "receipt" (unnamed fields        *)
(* included) are removed end message assembly the same way: both with      *)
(* "Missing task_id", both with "Message cannot be empty", or both with a  *)
(* message of the same task identifier and the same parts.                 *)
(* ---------------------------------------------------------------------- *)
C18_Assembled(p) ==
    /\ handler[p] = "send_message"
    /\ pc[p] \notin {"idle", "next_field"}
    /\ ~ReadFailed(p)

C18_Outcome(p) ==
    IF IsSome(message[p])
    THEN [outcome |-> "success", task_id |-> Unwrap(message[p]).task_id,
          parts |-> Unwrap(message[p]).parts]
    ELSE [outcome |-> response[p].error, task_id |-> None, parts |-> << >>]

C18_UnknownFieldsIgnored ==
    \A p, q \in Req :
        (/\ C18_Assembled(p)
         /\ C18_Assembled(q)
         /\ SelectSeq(request[p].fields,
                      LAMBDA f : f.name \in { Some("task_id"), Some("message"), Some("receipt") })
            = SelectSeq(request[q].fields,
                        LAMBDA f : f.name \in { Some("task_id"), Some("message"), Some("receipt") }))
        => /\ C18_Outcome(p) = C18_Outcome(q)
           /\ C18_Outcome(p).outcome
                  \in { "success", "Missing task_id", "Message cannot be empty" }
           /\ task_id[p] = task_id[q]

\* a message assembled from a form with an unknown file field between the
\* task identifier and the text, and the same message assembled from the form
\* without it
C18_Witness ==
    \E p, q \in Req :
        /\ C18_Assembled(p)
        /\ C18_Assembled(q)
        /\ Len(request[p].fields) = 3
        /\ request[p].fields[2].name = Some("avatar")
        /\ Len(request[q].fields) = 2
        /\ C18_Outcome(p).outcome = "success"
        /\ C18_Outcome(q) = C18_Outcome(p)

(* ---------------------------------------------------------------------- *)
(* C13 as stated: whenever a chat_page request for task t has ended, its   *)
(* page shows every message the backend has accepted for t (with one       *)
(* request at a time, each of them was submitted by a send_message request *)
(* that had been redirected before the chat_page request arrived).         *)
(* ---------------------------------------------------------------------- *)
C13_Shown(p) == { response[p].messages[i].view_of : i \in 1..Len(response[p].messages) }

C16_RelayedIsPrefix ==
    \A p \in Req :
        LET st == stream[p]
        IN  /\ Len(st.relayed) <= Len(st.delivered)
            /\ Len(st.delivered) - Len(st.relayed) <= 1
            /\ \A i \in 1..Len(st.relayed) :
                   /\ st.relayed[i].data = st.delivered[i]
                   /\ st.relayed[i].event = st.delivered[i].kind
            /\ st.connection = "open" =>
                   IF st.in_hand = None
                   THEN Len(st.relayed) = Len(st.delivered)
                   ELSE /\ Len(st.delivered) = Len(st.relayed) + 1
                        /\ st.in_hand = Some(st.delivered[Len(st.delivered)])

\* a stream that has relayed the same update twice, as delivered
C16_Witness ==
    \E p \in Req :
        /\ handler[p] = "stream_task"
        /\ Len(stream[p].relayed) = 2
        /\ stream[p].relayed[1] = stream[p].relayed[2]
        /\ stream[p].delivered[1] = stream[p].delivered[2]

(* ---------------------------------------------------------------------- *)
(* C17: an event stream whose connection is closed has released its        *)
(* subscription and ended, by the close of the connection, the end of the  *)
(* subscription or its error; the subscription is asked for its next item  *)
(* only while the connection is open; and the step in which one stream     *)
(* ends by a subscription error changes no other request, the stream's     *)
(* own response staying the event-stream response.                         *)
(* ---------------------------------------------------------------------- *)
C17_At(p) ==
    LET st == stream[p]
    IN  /\ st.connection = "closed" <=> st.subscription = "released"
        /\ st.connection = "closed" <=> st.ended_by \in {"close", "end", "error"}
        /\ st.connection = "closed" =>
               /\ pc[p] = "done"
               /\ response[p].kind = "sse"
        /\ st.requested = Len(st.delivered) + (IF st.ended_by \in {"end", "error"} THEN 1 ELSE 0)

C17_AskedOnlyWhileOpen ==
    \A p \in Req :
        stream'[p].requested > stream[p].requested =>
            /\ stream[p].connection = "open"
            /\ stream[p].subscription = "open"

C17_ErrorEndsOneStream ==
    \A p, q \in Req :
        (p # q /\ stream[p].ended_by = "none" /\ stream'[p].ended_by = "error") =>
            /\ stream'[q] = stream[q]
            /\ pc'[q] = pc[q]
            /\ response'[q] = response[q]

C17_TerminatesAndReleases ==
    /\ [](\A p \in Req : C17_At(p))
    /\ [][C17_AskedOnlyWhileOpen]_vars
    /\ [][C17_ErrorEndsOneStream]_vars

\* one stream has ended by a subscription error after relaying an event,
\* while another stream is open and has relayed an event
C17_Witness ==
    \E p, q \in Req :
        /\ p # q
        /\ stream[p].ended_by = "error"
        /\ stream[p].subscription = "released"
        /\ Len(stream[p].relayed) = 1
        /\ stream[q].connection = "open"
        /\ stream[q].subscription = "open"
        /\ Len(stream[q].relayed) = 1

(* ---------------------------------------------------------------------- *)
(* C21: the message of every send_task_message call, and every message a   *)
(* submission request has built, has role "user" and at least one part;    *)
(* each of its File parts has bytes Some(non-empty base64 text) and uri    *)
(* None, each of its other parts is a Text part.                           *)
(* ---------------------------------------------------------------------- *)
C21_WellFormed(msg) ==
    /\ msg.role = "user"
    /\ msg.kind = "message"
    /\ Len(msg.parts) >= 1
    /\ \A i \in 1..Len(msg.parts) :
           IF msg.parts[i].kind = "file"
           THEN /\ msg.parts[i].file.bytes # None
                /\ Len(msg.parts[i].file.bytes[1]) >= 4
                /\ msg.parts[i].file.uri = None
           ELSE msg.parts[i].kind = "text"

C21_SubmittedMessageWellFormed ==
    \A p \in Req :
        /\ \A i \in CallsAt(p, "send_task_message") :
               /\ C21_WellFormed(calls[p][i].message)
               /\ message[p] = << calls[p][i].message >>
        /\ (Submitting(p) /\ message[p] # None) => C21_WellFormed(message[p][1])

\* a message made of one File part only has been handed to send_task_message
C21_Witness ==
    \E p \in Req :
        \E i \in CallsAt(p, "send_task_message") :
            /\ handler[p] = "send_message"
            /\ Len(calls[p][i].message.parts) = 1
            /\ calls[p][i].message.parts[1].kind = "file"
            /\ calls[p][i].message.parts[1].file.bytes # None

(* ---------------------------------------------------------------------- *)
(* C22: in a send_message or submit_expense request one task identifier    *)
(* is used throughout: the task_id of the built message, the task id of    *)
(* the send_task_message call and of its message, the task id of the       *)
(* registration config and the one in the redirect location are the same;  *)
(* for send_message it is the value of the form's last task_id field,      *)
(* whatever the task id of the request path, for submit_expense the        *)
(* identifier generated at the start of the request.                       *)
(* ---------------------------------------------------------------------- *)
C22_Identifier(p) ==
    IF handler[p] = "send_message"
    THEN LET named == SelectSeq(request[p].fields, LAMBDA f : f.name = << "task_id" >>)
         IN  IF named = << >> THEN "" ELSE named[Len(named)].text
    ELSE task_id[p]

C22_OneTaskIdentifier ==
    \A p \in Req :
        Submitting(p) =>
            /\ message[p] # None =>
                   /\ message[p][1].task_id = << C22_Identifier(p) >>
                   /\ C22_Identifier(p) # ""
            /\ \A i \in CallsAt(p, "send_task_message") :
                   /\ calls[p][i].task_id = C22_Identifier(p)
                   /\ calls[p][i].message.task_id = << C22_Identifier(p) >>
            /\ \A i \in CallsAt(p, "set_task_push_notification") :
                   /\ calls[p][i].config.task_id = C22_Identifier(p)
                   /\ calls[p][i].task_id = C22_Identifier(p)
            /\ response[p].kind = "redirect" =>
                   response[p].location = "/chat/" \o C22_Identifier(p)
            /\ handler[p] = "submit_expense" => C22_Identifier(p) \in Uuids

\* a send_message request posted to the path of task t2 with the form's
\* task_id t1 has submitted, registered and been redirected with t1
C22_Witness ==
    \E p \in Req :
        /\ handler[p] = "send_message"
        /\ request[p].path_task_id = "t2"
        /\ response[p] = [kind |-> "redirect", location |-> "/chat/t1"]
        /\ calls[p][1].task_id = "t1"
        /\ calls[p][2].config.task_id = "t1"

====
